---- MODULE Spec2Model ----
(***************************************************************************)
(* Model of myip/core.py: the request-parameter merger (json_frm,          *)
(* merge_frm), the response-format resolver (wants_type, want_json) over   *)
(* the CONTENT_TYPES registry, and the lazily initialised Redis handle     *)
(* (get_redis, _STORE).                                                    *)
(*                                                                         *)
(* Python values are records [kind, s, d]: kind is the Python type, s the  *)
(* text of a scalar, d the mapping of a dict.  A raised exception is the   *)
(* value of kind "raise".  An Accept header string is the sequence of its  *)
(* comma-separated items, each [mime, q] with q in tenths.                 *)
(***************************************************************************)
EXTENDS Integers, Sequences, FiniteSets, TLC

VARIABLES cf, req, call, result, STORE, pc, inst, ret, made

vars == <<cf, req, call, result, STORE, pc, inst, ret, made>>

(***************************************************************************)
(* Bounds                                                                  *)
(***************************************************************************)
\* longest Accept header, in items
MaxAccept == 2
\* threads calling get_redis concurrently
NumThreads == 2

(***************************************************************************)
(* Python values                                                           *)
(***************************************************************************)
EmptyMap == [k \in {} |-> [kind |-> "none", s |-> ""]]

None == [kind |-> "none", s |-> "", d |-> EmptyMap]

Str(x) == [kind |-> "str", s |-> x, d |-> EmptyMap]

Num(x) == [kind |-> "int", s |-> x, d |-> EmptyMap]

List(x) == [kind |-> "list", s |-> x, d |-> EmptyMap]

Bool(b) == [kind |-> "bool", s |-> IF b THEN "True" ELSE "False", d |-> EmptyMap]

Dict(m) == [kind |-> "dict", s |-> "", d |-> m]

Raise(e) == [kind |-> "raise", s |-> e, d |-> EmptyMap]

\* {**a, **b}
Overlay(a, b) == [k \in (DOMAIN a) \cup (DOMAIN b) |-> IF k \in DOMAIN b THEN b[k] ELSE a[k]]

\* privex.helpers.empty(v, zero, itr)
empty(v, zero, itr) ==
    \/ v.kind = "none"
    \/ v.kind = "str" /\ v.s = ""
    \/ zero /\ v.kind \in {"int", "str"} /\ v.s = "0"
    \/ itr /\ v.kind = "dict" /\ DOMAIN v.d = {}
    \/ itr /\ v.kind = "list" /\ v.s = "[]"

\* str.lower() on the strings of the model (every other string is lower case already)
lower(x) ==
    CASE x = "YML" -> "yml"
      [] x = "TEXT/YAML" -> "text/yaml"
      [] OTHER -> x

\* 'html' in x, on the strings of the model
contains_html(x) ==
    x \in {"html", "text/html", "text/x-html", "text/xhtml", "text/xhtml+xml", "application/html",
           "application/x-html", "application/xhtml", "application/xhtml+xml"}

(***************************************************************************)
(* The registry                                                            *)
(***************************************************************************)
\* the registry with the alias 'api' lost from json
CONTENT_TYPES_no_api ==
    [tname \in {"json", "text", "html", "yaml"} |->
       CASE tname = "json" -> {"json", "application/json", "application/x-json", "application/js", "js",
                               "text/json", "text/x-json"}
         [] tname = "text" -> {"flat", "txt", "plain", "x-plain", "text", "text/*", "text/plain", "text/x-plain",
                               "text/plaintext", "plaintext", "plain-text", "text/plain-text",
                               "application/plain", "application/x-plainapplication/plaintext",
                               "application/plain-textapplication/text"}
         [] tname = "html" -> {"htm", "html", "text/html", "text/x-html", "text/xhtml", "text/xhtml+xml",
                               "application/html", "application/x-html", "application/xhtml",
                               "application/xhtml+xml", "web", "page", "webpage"}
         [] tname = "yaml" -> {"yml", "yaml", "x-yml", "x-yaml", "text/yaml", "text/vnd.yaml", "text/yml",
                               "application/yaml", "application/yml", "text/x-yaml", "text/x-yml",
                               "application/vnd.yaml", "application/x-yaml", "application/x-yml"}]

\* CONTENT_TYPES: adjacent literals without a comma are one string in Python
CONTENT_TYPES ==
    [tname \in {"json", "text", "html", "yaml"} |->
       CASE tname = "json" -> {"json", "application/json", "application/x-json", "application/js", "js", "api",
                               "text/json", "text/x-json"}
         [] tname = "text" -> {"flat", "txt", "plain", "x-plain", "text", "text/*", "text/plain", "text/x-plain",
                               "text/plaintext", "plaintext", "plain-text", "text/plain-text",
                               "application/plain", "application/x-plainapplication/plaintext",
                               "application/plain-textapplication/text"}
         [] tname = "html" -> {"htm", "html", "text/html", "text/x-html", "text/xhtml", "text/xhtml+xml",
                               "application/html", "application/x-html", "application/xhtml",
                               "application/xhtml+xml", "web", "page", "webpage"}
         [] tname = "yaml" -> {"yml", "yaml", "x-yml", "x-yaml", "text/yaml", "text/vnd.yaml", "text/yml",
                               "application/yaml", "application/yml", "text/x-yaml", "text/x-yml",
                               "application/vnd.yaml", "application/x-yaml", "application/x-yml"}]

\* the iteration order of CONTENT_TYPES.items()
TypeOrder == <<"json", "text", "html", "yaml">>

\* for tname, tlist in CONTENT_TYPES.items(): if x in tlist: return tname      ("" when the loop ends)
RECURSIVE registry_scan(_, _)
registry_scan(x, i) ==
    IF i > Len(TypeOrder) THEN ""
    ELSE IF x \in CONTENT_TYPES[TypeOrder[i]] THEN TypeOrder[i]
    ELSE registry_scan(x, i + 1)

\* the four inline alias lists checked after the registry
InlineTypes ==
    [tname \in {"json", "text", "html", "yaml"} |->
       CASE tname = "json" -> {"json", "application/json", "js", "api"}
         [] tname = "text" -> {"flat", "plain", "text", "text/plain", "plaintext"}
         [] tname = "html" -> {"html", "text/html", "application/html", "web", "page", "webpage"}
         [] tname = "yaml" -> {"yml", "yaml", "text/yaml", "text/yml", "application/yaml", "application/yml"}]

RECURSIVE inline_scan(_, _)
inline_scan(x, i) ==
    IF i > Len(TypeOrder) THEN ""
    ELSE IF x \in InlineTypes[TypeOrder[i]] THEN TypeOrder[i]
    ELSE inline_scan(x, i + 1)

(***************************************************************************)
(* accept_types.parse_header                                               *)
(***************************************************************************)
\* an Accept argument or header value: None, or the string with these items
AcceptNone == [kind |-> "none", items |-> <<>>]

AcceptStr(items) == [kind |-> "str", items |-> items]

\* empty(v) of an Optional[str] holding an Accept header: None or ''
empty_str(v) == v.kind = "none" \/ v.items = <<>>

\* privex.helpers.empty_if(v, is_empty)
empty_if(v, is_empty) == IF empty_str(v) THEN is_empty ELSE v

\* AcceptableType.__init__ raises ValueError unless the item is type/subtype
valid_mime_type(x) == x \notin {"", "garbage"}

\* sorted(mime_types, reverse=True): stable, by weight alone
RECURSIVE insert_by_weight(_, _)
insert_by_weight(sorted, e) ==
    IF sorted = <<>> THEN <<e>>
    ELSE IF Head(sorted).q >= e.q THEN <<Head(sorted)>> \o insert_by_weight(Tail(sorted), e)
    ELSE <<e>> \o sorted

RECURSIVE sorted_reverse(_, _)
sorted_reverse(done, todo) ==
    IF todo = <<>> THEN done
    ELSE sorted_reverse(insert_by_weight(done, Head(todo)), Tail(todo))

\* the parser keeping the header's order, ignoring q
parse_header_unsorted(items) == SelectSeq(items, LAMBDA e : valid_mime_type(e.mime))

\* accept_types.parse_header(header): the valid items, highest weight first
parse_header(items) == sorted_reverse(<<>>, SelectSeq(items, LAMBDA e : valid_mime_type(e.mime)))

(***************************************************************************)
(* The request                                                             *)
(***************************************************************************)
\* a headers mapping: its Accept value (None when absent), and whether it has other keys
Headers(accept, others) == [kind |-> "headers", accept |-> accept, others |-> others]

NoHeaders == [kind |-> "none", accept |-> AcceptNone, others |-> FALSE]

\* empty(headers, itr=True)
empty_headers(h) == h.kind = "none" \/ (h.accept.kind = "none" /\ ~h.others)

\* headers.get('Accept', '*/*')
headers_get_accept(h) ==
    IF h.accept.kind = "none" THEN AcceptStr(<<[mime |-> "*/*", q |-> 10]>>) ELSE h.accept

\* a request body: raw is "empty", "malformed" or "json" (then j is the document)
Body(raw, j) == [raw |-> raw, j |-> j]

\* Request.get_json(force=True, silent=True): None when the body does not parse
get_json(r) == IF r.body.raw = "json" THEN r.body.j ELSE None

(***************************************************************************)
(* json_frm, merge_frm                                                     *)
(***************************************************************************)
\* json_frm without the fallback: whatever get_json returns
json_frm_no_fallback(r) == get_json(r)

\* json_frm(force=True, silent=True, fallback=dict, call_fb=True)
json_frm(r) ==
    LET j == get_json(r)
    IN IF empty(j, TRUE, TRUE) THEN Dict(EmptyMap) ELSE j

\* merge_frm with the form overlaid last
merge_frm_form_last(use_get, use_post, use_json) ==
    LET d1 == IF use_get THEN req.args ELSE EmptyMap
        j == json_frm(req)
        d2 == IF use_json /\ j.kind = "dict" THEN Overlay(d1, j.d) ELSE d1
        d3 == IF use_post THEN Overlay(d2, req.form) ELSE d2
    IN IF use_json /\ j.kind # "dict" THEN Raise("TypeError") ELSE Dict(d3)

\* merge_frm(use_get, use_post, use_json) on the current request
merge_frm(use_get, use_post, use_json) ==
    LET d0 == EmptyMap
        d1 == IF use_get THEN Overlay(d0, req.args) ELSE d0
        d2 == IF use_post THEN Overlay(d1, req.form) ELSE d1
        j == json_frm(req)
    IN IF ~use_json THEN Dict(d2)
       ELSE IF j.kind # "dict" THEN Raise("TypeError")
       ELSE Dict(Overlay(d2, j.d))

(***************************************************************************)
(* wants_type, want_json                                                   *)
(***************************************************************************)
\* the effective format taken from the query even when fmt is given
effective_fmt_query_first(query, fmt) ==
    IF "format" \in DOMAIN query.d THEN query.d["format"]
    ELSE IF empty(fmt, FALSE, FALSE) THEN Str("html") ELSE fmt

\* the effective format never taken from the query
effective_fmt_no_query(query, fmt) == IF empty(fmt, FALSE, FALSE) THEN Str("html") ELSE fmt

\* fmt = query.get('format', 'html') if empty(fmt) else fmt
effective_fmt(query, fmt) ==
    IF empty(fmt, FALSE, FALSE)
    THEN (IF "format" \in DOMAIN query.d THEN query.d["format"] ELSE Str("html"))
    ELSE fmt

\* for mt in accepts: ...; return 'any'
RECURSIVE accept_scan(_)
accept_scan(accepts) ==
    IF accepts = <<>> THEN "any"
    ELSE LET mt == Head(accepts)
         IN IF contains_html(mt.mime) THEN "html"
            ELSE IF registry_scan(lower(mt.mime), 1) # "" THEN registry_scan(lower(mt.mime), 1)
            ELSE accept_scan(Tail(accepts))

\* wants_type(accepts, headers, query, fmt)
wants_type(accepts, headers, query, fmt) ==
    LET headers1 == IF empty_headers(headers) THEN req.headers ELSE headers
        accepts1 == empty_if(accepts, headers_get_accept(headers1))
        accepts2 == parse_header(accepts1.items)
        query1 == IF empty(query, FALSE, FALSE) THEN merge_frm(TRUE, TRUE, TRUE) ELSE query
    IN IF query1.kind = "raise" THEN query1
       ELSE LET fmt1 == effective_fmt(query1, fmt)
            IN IF fmt1.kind # "str" THEN Raise("AttributeError")
               ELSE IF registry_scan(lower(fmt1.s), 1) # "" THEN Str(registry_scan(lower(fmt1.s), 1))
               ELSE IF inline_scan(lower(fmt1.s), 1) # "" THEN Str(inline_scan(lower(fmt1.s), 1))
               ELSE Str(accept_scan(accepts2))

\* want_json without the API_ONLY override
want_json_no_api_only(accepts, headers, query, fmt) ==
    LET t == wants_type(accepts, headers, query, fmt)
    IN IF t.kind = "raise" THEN t ELSE Bool(t = Str("json"))

\* want_json(accepts, headers, query, fmt=...)
want_json(accepts, headers, query, fmt) ==
    IF cf.API_ONLY THEN Bool(TRUE)
    ELSE LET t == wants_type(accepts, headers, query, fmt)
         IN IF t.kind = "raise" THEN t ELSE Bool(t = Str("json"))

(***************************************************************************)
(* get_redis, one step per line of the function and per thread             *)
(***************************************************************************)
Threads == 1..NumThreads

\* a thread enters get_redis()
Enter(t) ==
    /\ pc[t] = "idle"
    /\ pc' = [pc EXCEPT ![t] = "check"]
    /\ UNCHANGED <<cf, req, call, result, STORE, inst, ret, made>>

\* if 'redis' not in _STORE:
Check(t) ==
    /\ pc[t] = "check"
    /\ pc' = [pc EXCEPT ![t] = IF STORE = 0 THEN "construct" ELSE "return"]
    /\ UNCHANGED <<cf, req, call, result, STORE, inst, ret, made>>

\* redis.Redis(host=..., port=...): a new client instance, numbered from 1
Construct(t) ==
    /\ pc[t] = "construct"
    /\ made' = made + 1
    /\ inst' = [inst EXCEPT ![t] = made + 1]
    /\ pc' = [pc EXCEPT ![t] = "store"]
    /\ UNCHANGED <<cf, req, call, result, STORE, ret>>

\* _STORE['redis'] = <the new instance>
Store(t) ==
    /\ pc[t] = "store"
    /\ STORE' = inst[t]
    /\ pc' = [pc EXCEPT ![t] = "return"]
    /\ UNCHANGED <<cf, req, call, result, inst, ret, made>>

\* return _STORE['redis']
Return(t) ==
    /\ pc[t] = "return"
    /\ ret' = [ret EXCEPT ![t] = STORE]
    /\ pc' = [pc EXCEPT ![t] = "idle"]
    /\ UNCHANGED <<cf, req, call, result, STORE, inst, made>>

get_redis(t) == Enter(t) \/ Check(t) \/ Construct(t) \/ Store(t) \/ Return(t)

(***************************************************************************)
(* Inputs                                                                  *)
(***************************************************************************)
Map1(k, v) == [x \in {k} |-> v]

ArgsSet == {EmptyMap, Map1("a", Str("1")), Overlay(Map1("a", Str("1")), Map1("format", Str("api")))}

FormSet == {EmptyMap, Map1("b", Str("3")), Overlay(Map1("a", Str("2")), Map1("b", Str("3")))}

BodySet ==
    {Body("empty", None), Body("malformed", None),
     Body("json", Dict(EmptyMap)), Body("json", Dict(Map1("a", Num("4")))),
     Body("json", Dict(Overlay(Map1("a", Num("4")), Map1("format", Num("5"))))),
     Body("json", List("[]")), Body("json", List("[1]")), Body("json", Num("0")), Body("json", Str("x"))}

HeadersSet ==
    {Headers(AcceptNone, TRUE), Headers(AcceptStr(<<[mime |-> "application/json", q |-> 10]>>), TRUE)}

Requests ==
    {[args |-> a, form |-> f, body |-> b, headers |-> h] : a \in ArgsSet, f \in FormSet, b \in BodySet, h \in HeadersSet}

\* the requests the resolver is run against
ResolveRequests ==
    {r \in Requests :
        /\ r.form = EmptyMap
        /\ r.args \in {EmptyMap, Overlay(Map1("a", Str("1")), Map1("format", Str("api")))}
        /\ r.body \in {Body("empty", None), Body("json", List("[1]")),
                       Body("json", Dict(Overlay(Map1("a", Num("4")), Map1("format", Num("5")))))}}

AcceptItems ==
    {[mime |-> "text/html", q |-> 10], [mime |-> "application/json", q |-> 10],
     [mime |-> "application/json", q |-> 5], [mime |-> "application/octet-stream", q |-> 10],
     [mime |-> "TEXT/YAML", q |-> 5], [mime |-> "garbage", q |-> 10]}

AcceptArgs == {AcceptNone} \cup {AcceptStr(s) : s \in UNION {[1..n -> AcceptItems] : n \in 0..MaxAccept}}

HeaderArgs == {NoHeaders, Headers(AcceptNone, FALSE), Headers(AcceptStr(<<[mime |-> "TEXT/YAML", q |-> 5]>>), FALSE)}

QueryArgs ==
    {None, Dict(EmptyMap), Dict(Map1("format", Str("api"))), Dict(Map1("format", Str("foo"))),
     Dict(Map1("format", Num("5")))}

FmtArgs == {None, Str(""), Str("YML"), Str("foo"), Num("5")}

NoCall ==
    [op |-> "none", use_get |-> TRUE, use_post |-> TRUE, use_json |-> TRUE,
     accepts |-> AcceptNone, headers |-> NoHeaders, query |-> None, fmt |-> None]

(***************************************************************************)
(* Actions of the request handlers                                         *)
(***************************************************************************)
\* the next request arrives
Request ==
    /\ req' \in Requests
    /\ call' = NoCall
    /\ result' = None
    /\ UNCHANGED <<cf, STORE, pc, inst, ret, made>>

\* a handler makes its call once for the request it handles
MergeFrm ==
    /\ call.op = "none"
    /\ \E g \in BOOLEAN, p \in BOOLEAN, j \in BOOLEAN :
        /\ call' = [NoCall EXCEPT !.op = "merge_frm", !.use_get = g, !.use_post = p, !.use_json = j]
        /\ result' = merge_frm(g, p, j)
        /\ UNCHANGED <<cf, req, STORE, pc, inst, ret, made>>

WantsType ==
    /\ call.op = "none"
    /\ \E accepts \in AcceptArgs, query \in QueryArgs, fmt \in FmtArgs :
        \E headers \in IF empty_str(accepts) THEN HeaderArgs ELSE {NoHeaders} :
            /\ call' = [NoCall EXCEPT !.op = "wants_type", !.accepts = accepts, !.headers = headers,
                                      !.query = query, !.fmt = fmt]
            /\ result' = wants_type(accepts, headers, query, fmt)
            /\ UNCHANGED <<cf, req, STORE, pc, inst, ret, made>>

WantJson ==
    /\ call.op = "none"
    /\ \E accepts \in AcceptArgs, query \in QueryArgs, fmt \in FmtArgs :
        \E headers \in IF empty_str(accepts) THEN HeaderArgs ELSE {NoHeaders} :
            /\ call' = [NoCall EXCEPT !.op = "want_json", !.accepts = accepts, !.headers = headers,
                                      !.query = query, !.fmt = fmt]
            /\ result' = want_json(accepts, headers, query, fmt)
            /\ UNCHANGED <<cf, req, STORE, pc, inst, ret, made>>

(***************************************************************************)
(* Specifications                                                          *)
(***************************************************************************)
InitStore ==
    /\ STORE = 0
    /\ pc = [t \in Threads |-> "idle"]
    /\ inst = [t \in Threads |-> 0]
    /\ ret = [t \in Threads |-> 0]
    /\ made = 0

InitHandlers(rs) ==
    /\ cf \in [API_ONLY : BOOLEAN]
    /\ req \in rs
    /\ call = NoCall
    /\ result = None

Init == InitHandlers(Requests) /\ InitStore

Next == Request \/ MergeFrm \/ WantsType \/ WantJson \/ \E t \in Threads : get_redis(t)

Spec == Init /\ [][Next]_vars

\* the merger, over every request
NextMerge == Request \/ MergeFrm

SpecMerge == Init /\ [][NextMerge]_vars

\* the resolver, called for one request
InitResolve == InitHandlers(ResolveRequests) /\ InitStore

NextResolve == WantsType \/ WantJson

SpecResolve == InitResolve /\ [][NextResolve]_vars

\* get_redis called from NumThreads threads of one process
InitRedis == InitHandlers({CHOOSE r \in ResolveRequests : TRUE}) /\ InitStore

NextRedis == \E t \in Threads : get_redis(t)

SpecRedis == InitRedis /\ [][NextRedis]_vars

(***************************************************************************)
(* Properties                                                              *)
(***************************************************************************)
\* the merged params wants_type works on: the query argument, or merge_frm() of the request
Params == IF empty(call.query, FALSE, FALSE) THEN merge_frm(TRUE, TRUE, TRUE) ELSE call.query

\* the Accept header string wants_type parses
EffectiveAccept ==
    IF ~empty_str(call.accepts) THEN call.accepts
    ELSE headers_get_accept(IF empty_headers(call.headers) THEN req.headers ELSE call.headers)

\* the effective format string of the call
EffectiveFmt ==
    IF ~empty(call.fmt, FALSE, FALSE) THEN call.fmt
    ELSE IF "format" \in DOMAIN Params.d THEN Params.d["format"]
    ELSE Str("html")

LogicalFormats == {"json", "text", "html", "yaml"}

\* x, compared case-insensitively, is an alias of logical format t
IsAlias(x, t) == lower(x) \in CONTENT_TYPES[t]

\* what one Accept entry resolves to, "" when it does not resolve
EntryFormat(mime) ==
    IF contains_html(mime) THEN "html"
    ELSE IF \E t \in LogicalFormats : IsAlias(mime, t) THEN CHOOSE t \in LogicalFormats : IsAlias(mime, t)
    ELSE ""

\* C1: with no explicit format and no format key in the params, the result of
\* wants_type is what Accept negotiation over the header yields (json for
\* application/json, any for a header with no resolving entry).
C1_AcceptNegotiationDecides ==
    (/\ call.op = "wants_type"
     /\ empty(call.fmt, FALSE, FALSE)
     /\ call.query.kind = "dict"
     /\ "format" \notin DOMAIN call.query.d
     /\ ~empty_str(call.accepts))
    => result = Str(accept_scan(parse_header(call.accepts.items)))

\* C2: wants_type is total: for an absent, empty or string explicit format, any
\* params map (its format value possibly not a string) and any Accept header it
\* returns one of json, text, html, yaml, any and never raises.
C2_ResolveTotal ==
    (/\ call.op = "wants_type"
     /\ call.fmt.kind \in {"none", "str"}
     /\ call.query.kind = "dict")
    => result \in {Str(t) : t \in LogicalFormats \cup {"any"}}

\* C3: when the explicit format, compared case-insensitively, is an alias of a
\* logical format, wants_type returns that format whatever the params' format
\* key and the Accept header are.
C3_ExplicitAliasWins ==
    (/\ call.op = "wants_type"
     /\ Params.kind = "dict"
     /\ call.fmt.kind = "str")
    => \A t \in LogicalFormats : IsAlias(call.fmt.s, t) => result = Str(t)

C3_Witness ==
    /\ call.op = "wants_type"
    /\ call.fmt = Str("YML")
    /\ call.query = Dict(Map1("format", Str("api")))
    /\ call.accepts = AcceptStr(<<[mime |-> "text/html", q |-> 10]>>)
    /\ result = Str("yaml")

\* C4: with no explicit format the params' format value is the effective format
\* (an alias there decides the result whatever the Accept header is); a given
\* explicit format takes precedence, so the params' format key is not read.
C4_FormatParamUsed ==
    (/\ call.op = "wants_type"
     /\ Params.kind = "dict")
    => /\ (/\ empty(call.fmt, FALSE, FALSE)
           /\ "format" \in DOMAIN Params.d
           /\ Params.d["format"].kind = "str")
          => \A t \in LogicalFormats : IsAlias(Params.d["format"].s, t) => result = Str(t)
       /\ ~empty(call.fmt, FALSE, FALSE)
          => result = wants_type(call.accepts, call.headers, Dict(Map1("a", Str("1"))), call.fmt)

C4_Witness ==
    /\ call.op = "wants_type"
    /\ call.fmt = None
    /\ call.query = Dict(Map1("format", Str("api")))
    /\ call.accepts = AcceptStr(<<>>)
    /\ result = Str("json")

\* C5: when the effective format matches no alias, the result is decided by the
\* first resolving entry of the Accept header in descending priority (ties in
\* header order): html if its MIME type contains html, else the format whose
\* aliases hold its lower-cased MIME type; any if no entry resolves.
C5_AcceptWalk ==
    (/\ call.op = "wants_type"
     /\ Params.kind = "dict"
     /\ EffectiveFmt.kind = "str"
     /\ \A t \in LogicalFormats : ~IsAlias(EffectiveFmt.s, t))
    => LET items == EffectiveAccept.items
           resolving == {i \in 1..Len(items) : valid_mime_type(items[i].mime) /\ EntryFormat(items[i].mime) # ""}
           first == {i \in resolving :
                        \A j \in resolving : items[j].q < items[i].q \/ (items[j].q = items[i].q /\ j >= i)}
       IN IF resolving = {} THEN result = Str("any")
          ELSE \E i \in first : result = Str(EntryFormat(items[i].mime))

C5_Witness ==
    /\ call.op = "wants_type"
    /\ call.fmt = Str("foo")
    /\ call.accepts = AcceptStr(<<[mime |-> "application/json", q |-> 5], [mime |-> "text/html", q |-> 10]>>)
    /\ result = Str("html")

\* the mapping the JSON body contributes: the document, or nothing when the body is empty or malformed
JsonSource == IF req.body.raw = "json" THEN req.body.j.d ELSE EmptyMap

\* C6: merge_frm returns a map over the union of the enabled sources' keys, each
\* key with the value of the highest-precedence enabled source holding it
\* (JSON body > form > query string); a disabled source contributes nothing.
C6_MergePrecedence ==
    (/\ call.op = "merge_frm"
     /\ (~call.use_json \/ req.body.raw # "json" \/ req.body.j.kind = "dict"))
    => LET q == IF call.use_get THEN req.args ELSE EmptyMap
           f == IF call.use_post THEN req.form ELSE EmptyMap
           j == IF call.use_json THEN JsonSource ELSE EmptyMap
       IN /\ result.kind = "dict"
          /\ DOMAIN result.d = (DOMAIN q) \cup (DOMAIN f) \cup (DOMAIN j)
          /\ \A k \in DOMAIN result.d :
                result.d[k] = IF k \in DOMAIN j THEN j[k] ELSE IF k \in DOMAIN f THEN f[k] ELSE q[k]

C6_Witness ==
    /\ call.op = "merge_frm"
    /\ call.use_get /\ call.use_post /\ call.use_json
    /\ req.args = Map1("a", Str("1"))
    /\ req.form = Overlay(Map1("a", Str("2")), Map1("b", Str("3")))
    /\ req.body = Body("json", Dict(Map1("a", Num("4"))))
    /\ result = Dict(Overlay(Map1("a", Num("4")), Map1("b", Str("3"))))

\* C7: when the body is empty or does not parse as JSON, merge_frm does not
\* raise and returns the overlay of the enabled query and form sources alone.
C7_JsonFailureIsEmpty ==
    (/\ call.op = "merge_frm"
     /\ req.body.raw \in {"empty", "malformed"})
    => result = Dict(Overlay(IF call.use_get THEN req.args ELSE EmptyMap,
                             IF call.use_post THEN req.form ELSE EmptyMap))

C7_Witness ==
    /\ call.op = "merge_frm"
    /\ call.use_get /\ call.use_post /\ call.use_json
    /\ req.body.raw = "malformed"
    /\ req.args = Map1("a", Str("1"))
    /\ req.form = Map1("b", Str("3"))
    /\ result = Dict(Overlay(Map1("a", Str("1")), Map1("b", Str("3"))))

\* C8: want_json returns True for every input when API_ONLY is set; otherwise
\* it returns True exactly when wants_type on the same inputs returns json.
C8_WantJson ==
    call.op = "want_json"
    => /\ cf.API_ONLY => result = Bool(TRUE)
       /\ ~cf.API_ONLY
          => (result = Bool(TRUE)) <=> (wants_type(call.accepts, call.headers, call.query, call.fmt) = Str("json"))

C8_Witness ==
    /\ call.op = "want_json"
    /\ cf.API_ONLY
    /\ call.fmt = Str("YML")
    /\ call.accepts = AcceptStr(<<[mime |-> "text/html", q |-> 10]>>)
    /\ result = Bool(TRUE)

\* C9: every alias of the inline lists is in the registry's alias set of the
\* same format, so whenever wants_type reaches the inline lists (the registry
\* matched nothing) they match nothing either.
C9_InlineListsRedundant ==
    /\ \A t \in LogicalFormats : InlineTypes[t] \subseteq CONTENT_TYPES[t]
    /\ (/\ call.op = "wants_type"
        /\ Params.kind = "dict"
        /\ EffectiveFmt.kind = "str"
        /\ registry_scan(lower(EffectiveFmt.s), 1) = "")
       => inline_scan(lower(EffectiveFmt.s), 1) = ""

C9_Witness ==
    /\ call.op = "wants_type"
    /\ call.fmt = None
    /\ call.query = Dict(Map1("format", Str("api")))
    /\ inline_scan(lower(EffectiveFmt.s), 1) = "json"
    /\ result = Str("json")

\* C10: over any interleaving of get_redis calls at most one client is ever
\* constructed, the stored handle is never replaced once set, and every call
\* returns the same instance.
C10_SingleInitialisation ==
    [][/\ made' <= 1
       /\ STORE # 0 => STORE' = STORE
       /\ \A t \in Threads, u \in Threads : (ret'[t] # 0 /\ ret'[u] # 0) => ret'[t] = ret'[u]]_vars

====
